---- MODULE Spec2Model ----
(***************************************************************************)
(* A model of cpsmine.py: the row filter (skip_row), the per-second count  *)
(* table (process_csvfile), the interval-merging pass (evaluate_cpsdict,   *)
(* evaluate_row) and the summary (print_results, print_stats,              *)
(* print_thresholds).                                                      *)
(*                                                                         *)
(* Python values that may be None are records [none, s]; a timestamp       *)
(* string in FMT is a pair <<minute, second>>, a datetime is a number of   *)
(* seconds, and a key in COMPRESS_FMT is the number whose decimal digits   *)
(* are "MMSS" (fixed width, so the order of the strings is the order of    *)
(* the numbers).  A cps value count/interval is the fraction               *)
(* [num |-> count, den |-> interval].                                      *)
(***************************************************************************)
EXTENDS Integers, Sequences, FiniteSets, TLC

VARIABLES cli_vars, pc, cpsdict, rows, skipped,
          sorted_keys, idx, previous_key, previous_ts, count, cpslist,
          members, evals, out, exit

vars == <<cli_vars, pc, cpsdict, rows, skipped,
          sorted_keys, idx, previous_key, previous_ts, count, cpslist,
          members, evals, out, exit>>

----------------------------------------------------------------------------
(* Bounds *)

MaxRows == 2
MaxSpan == 4
MaxCount == 2
MaxInterval == 3

----------------------------------------------------------------------------
(* Python values *)

None == [none |-> TRUE, s |-> ""]

Str(s) == [none |-> FALSE, s |-> s]

\* truth value of an optional string: None and '' are both false
Truthy(v) == ~v.none /\ v.s # ""

PROTO_LIST == {"icmp", "tcp", "udp"}

----------------------------------------------------------------------------
(* Timestamps *)

FirstTime == 58

\* datetime.strptime(s, FMT): <<minute, second>> to a number of seconds
strptime_FMT(s) == s[1] * 60 + s[2]

\* t.strftime(COMPRESS_FMT): the digits MMSS read as a number
strftime_COMPRESS(t) == (t \div 60) * 100 + (t % 60)

\* datetime.strptime(key, COMPRESS_FMT)
strptime_COMPRESS(key) == (key \div 100) * 60 + (key % 100)

Times == FirstTime .. (FirstTime + MaxSpan)

StartTimes == {<<t \div 60, t % 60>> : t \in (FirstTime + 1) .. (FirstTime + 2)}

Keys == {strftime_COMPRESS(t) : t \in Times}

----------------------------------------------------------------------------
(* Inputs *)

Selectors == PROTO_LIST \cup {"other", "all"}

\* the mutually exclusive group: exactly one of -i / -z is given
Criteria == {[interface |-> Str(i), zone |-> None] : i \in {"", "eth0"}}
       \cup {[interface |-> None, zone |-> Str(z)] : z \in {"", "trust"}}

Rows == [iface : {"", "eth0"}, zone : {"", "trust"},
         proto : {"icmp", "tcp", "udp", "gre"}, start : StartTimes]

Defaults == [interface |-> None, zone |-> None, protocol |-> "all",
             interval |-> 1, lowcps |-> 1, highcps |-> 10000,
             suppress |-> "true"]

----------------------------------------------------------------------------
(* Row Filter *)

\* TRUE when the row is to be skipped
skip_row(row, interface, proto, zone) ==
    LET row_key == IF Truthy(interface) THEN "iface" ELSE "zone"
        target  == IF Truthy(interface) THEN interface ELSE zone
    IN  IF Str(row[row_key]) # target THEN TRUE
        ELSE IF proto = "all" THEN FALSE
        ELSE IF proto = "other" /\ row.proto \notin PROTO_LIST THEN FALSE
        ELSE IF proto = row.proto THEN FALSE
        ELSE TRUE

----------------------------------------------------------------------------
(* Stage A: process_csvfile *)

\* cpsdict.get(key): the count, or 0 (false) when the key is absent
dict_get(d, key) == IF key \in DOMAIN d THEN d[key] ELSE 0

dict_set(d, key, v) == [k \in DOMAIN d \cup {key} |-> IF k = key THEN v ELSE d[k]]

EmptyDict == [k \in {} |-> 0]

\* lines 323-326: add one to the key's count, or create it with count 1
count_row_reset(d, key) == dict_set(d, key, 1)

count_row(d, key) ==
    IF dict_get(d, key) # 0 THEN dict_set(d, key, d[key] + 1)
    ELSE dict_set(d, key, 1)

\* a list-valued variable that may hold None
NoneList == [none |-> TRUE, v |-> <<>>]

List(v) == [none |-> FALSE, v |-> v]

InitCommon ==
    /\ rows = <<>>
    /\ skipped = <<>>
    /\ sorted_keys = <<>>
    /\ idx = 0
    /\ previous_key = 0
    /\ previous_ts = 0
    /\ count = 0
    /\ cpslist = NoneList
    /\ members = <<>>
    /\ evals = <<>>
    /\ out = <<>>
    /\ exit = "running"

InitCounts ==
    /\ \E c \in Criteria, p \in Selectors :
          cli_vars = [Defaults EXCEPT !.interface = c.interface,
                                      !.zone = c.zone, !.protocol = p]
    /\ pc = "process"
    /\ cpsdict = EmptyDict
    /\ InitCommon

\* one iteration of the loop over the reader
ProcessRow ==
    /\ pc = "process"
    /\ Len(rows) < MaxRows
    /\ \E row \in Rows :
          LET skip == skip_row(row, cli_vars.interface, cli_vars.protocol,
                               cli_vars.zone)
              t1 == strptime_FMT(row.start)
              compress_t1 == strftime_COMPRESS(t1)
          IN  /\ rows' = Append(rows, row)
              /\ skipped' = Append(skipped, skip)
              /\ cpsdict' = IF skip THEN cpsdict
                            ELSE count_row(cpsdict, compress_t1)
    /\ UNCHANGED <<cli_vars, pc, sorted_keys, idx, previous_key, previous_ts,
                   count, cpslist, members, evals, out, exit>>

\* the reader is exhausted: return cpsdict
ProcessEnd ==
    /\ pc = "process"
    /\ pc' = "returned"
    /\ UNCHANGED <<cli_vars, cpsdict, rows, skipped, sorted_keys, idx,
                   previous_key, previous_ts, count, cpslist, members,
                   evals, out, exit>>

NextCounts == ProcessRow \/ ProcessEnd

SpecCounts == InitCounts /\ [][NextCounts]_vars

----------------------------------------------------------------------------
(* Stage B: evaluate_cpsdict and evaluate_row *)

LowCpsValues == {0, 1}

HighCpsValues == {2, 3}

\* the tables process_csvfile can return: every count is at least 1
CountTables == UNION {[S -> 1 .. MaxCount] : S \in SUBSET Keys}

RECURSIVE sorted_reverse(_)
sorted_reverse(S) ==
    IF S = {} THEN <<>>
    ELSE LET m == CHOOSE x \in S : \A y \in S : x >= y
         IN  <<m>> \o sorted_reverse(S \ {m})

RECURSIVE sorted(_)
\* sorted(cpsdict): the keys in increasing order
sorted(S) ==
    IF S = {} THEN <<>>
    ELSE LET m == CHOOSE x \in S : \A y \in S : x <= y
         IN  <<m>> \o sorted(S \ {m})

Microseconds == 1000000

\* timedelta(seconds=n) / 2, in microseconds (exact: n * 10^6 is even)
half_interval(interval) == (interval * Microseconds) \div 2

whole_interval(interval) == interval * Microseconds

\* line 141: (ts - previous_ts) <= interval/2
within_strict(ts, prev, interval) ==
    (ts - prev) * Microseconds < half_interval(interval)

within_whole(ts, prev, interval) ==
    (ts - prev) * Microseconds <= whole_interval(interval)

within(ts, prev, interval) ==
    (ts - prev) * Microseconds <= half_interval(interval)

\* line 142: count += 1
merge_count_sum(c, d, key) == c + d[key]

merge_count(c, d, key) == c + 1

\* line 179: cps = count/interval, as a fraction
cps_of(c, interval) == [num |-> c, den |-> interval]

\* comparison of a fraction with a positive denominator and an integer
cps_gt(cps, n) == cps.num > n * cps.den

cps_lt(cps, n) == cps.num < n * cps.den

\* lines 181-182: whether the bucket is appended to cpslist
retained_nonstrict(c, cv) ==
    /\ c > 1
    /\ ~cps_lt(cps_of(c, cv.interval), cv.lowcps)
    /\ ~cps_gt(cps_of(c, cv.interval), cv.highcps)

retained_any_count(c, cv) ==
    /\ cps_gt(cps_of(c, cv.interval), cv.lowcps)
    /\ cps_lt(cps_of(c, cv.interval), cv.highcps)

retained(c, cv) ==
    /\ c > 1
    /\ cps_gt(cps_of(c, cv.interval), cv.lowcps)
    /\ cps_lt(cps_of(c, cv.interval), cv.highcps)

\* evaluate_row, its effect on cpslist (ts is a datetime at both call
\* sites, so the early return on ts is None is never taken)
evaluate_row_list(list, c, ts, cv) ==
    IF retained(c, cv) THEN Append(list, cps_of(c, cv.interval)) ELSE list

\* evaluate_row, its effect on the standard output
evaluate_row_print_always(o, c, ts, cv) ==
    Append(o, [kind |-> "progress", highlight |-> retained(c, cv),
               ts |-> ts, cps |-> cps_of(c, cv.interval)])

evaluate_row_print(o, c, ts, cv) ==
    IF cv.suppress # "true"
    THEN Append(o, [kind |-> "progress", highlight |-> retained(c, cv),
                    ts |-> ts, cps |-> cps_of(c, cv.interval)])
    ELSE o

\* the record kept of one call of evaluate_row
Evaluation(c, ts, cv, keys) ==
    [anchor |-> ts, count |-> c, cps |-> cps_of(c, cv.interval), keys |-> keys]

\* the inputs of evaluate_cpsdict: a table as process_csvfile returns it and
\* a configuration with a positive interval
InitDerive ==
    /\ \E c \in {[interface |-> Str("eth0"), zone |-> None],
                 [interface |-> None, zone |-> Str("trust")]},
          i \in 1 .. MaxInterval, l \in LowCpsValues, h \in HighCpsValues,
          s \in {"true", "false"} :
          cli_vars = [Defaults EXCEPT !.interface = c.interface,
                                      !.zone = c.zone, !.interval = i,
                                      !.lowcps = l, !.highcps = h,
                                      !.suppress = s]
    /\ pc = "evaluate"
    /\ cpsdict \in CountTables
    /\ InitCommon

\* lines 114-115: an empty table returns None
EvaluateEmpty ==
    /\ pc = "evaluate"
    /\ cpsdict = EmptyDict
    /\ cpslist' = NoneList
    /\ pc' = "print"
    /\ UNCHANGED <<cli_vars, cpsdict, rows, skipped, sorted_keys, idx,
                   previous_key, previous_ts, count, members, evals, out,
                   exit>>

\* lines 119-130: open the first bucket
EvaluateStart ==
    /\ pc = "evaluate"
    /\ cpsdict # EmptyDict
    /\ sorted_keys' = sorted(DOMAIN cpsdict)
    /\ previous_key' = sorted_keys'[1]
    /\ previous_ts' = strptime_COMPRESS(previous_key')
    /\ count' = cpsdict[previous_key']
    /\ cpslist' = List(<<>>)
    /\ members' = <<previous_key'>>
    /\ idx' = 2
    /\ pc' = "loop"
    /\ UNCHANGED <<cli_vars, cpsdict, rows, skipped, evals, out, exit>>

\* lines 134-143: the key falls in the open bucket
LoopMerge ==
    /\ pc = "loop"
    /\ idx <= Len(sorted_keys)
    /\ LET key == sorted_keys[idx]
           ts == strptime_COMPRESS(key)
       IN  /\ within(ts, previous_ts, cli_vars.interval)
           /\ count' = merge_count(count, cpsdict, key)
           /\ members' = Append(members, key)
    /\ idx' = idx + 1
    /\ UNCHANGED <<cli_vars, pc, cpsdict, rows, skipped, sorted_keys,
                   previous_key, previous_ts, cpslist, evals, out, exit>>

\* lines 134-153: the open bucket is evaluated and a new one opened
LoopClose ==
    /\ pc = "loop"
    /\ idx <= Len(sorted_keys)
    /\ LET key == sorted_keys[idx]
           ts == strptime_COMPRESS(key)
       IN  /\ ~within(ts, previous_ts, cli_vars.interval)
           /\ cpslist' = List(evaluate_row_list(cpslist.v, count, previous_ts,
                                                cli_vars))
           /\ out' = evaluate_row_print(out, count, previous_ts, cli_vars)
           /\ evals' = Append(evals, Evaluation(count, previous_ts, cli_vars,
                                                members))
           /\ previous_key' = key
           /\ previous_ts' = ts
           /\ count' = cpsdict[key]
           /\ members' = <<key>>
    /\ idx' = idx + 1
    /\ UNCHANGED <<cli_vars, pc, cpsdict, rows, skipped, sorted_keys, exit>>

\* lines 158-160: the last open bucket is evaluated and cpslist returned
LoopEnd ==
    /\ pc = "loop"
    /\ idx > Len(sorted_keys)
    /\ cpslist' = List(evaluate_row_list(cpslist.v, count, previous_ts,
                                         cli_vars))
    /\ out' = evaluate_row_print(out, count, previous_ts, cli_vars)
    /\ evals' = Append(evals, Evaluation(count, previous_ts, cli_vars,
                                         members))
    /\ members' = <<>>
    /\ pc' = "print"
    /\ UNCHANGED <<cli_vars, cpsdict, rows, skipped, sorted_keys, idx,
                   previous_key, previous_ts, count, exit>>

----------------------------------------------------------------------------
(* Summary: print_results, print_stats, print_thresholds *)

Line(kind) == [kind |-> kind]

SummaryKinds == {"header", "max", "avg", "stdev", "banner", "alert",
                 "activate", "maxthreshold"}

\* line 247: the header names the zone when it is set, else the interface
header_line(cv) ==
    [kind |-> "header",
     target |-> IF Truthy(cv.zone) THEN <<"zone", cv.zone.s>>
                ELSE <<"interface", cv.interface.s>>,
     protocol |-> cv.protocol]

\* lines 283-287
print_thresholds(o) ==
    o \o <<Line("banner"), Line("alert"), Line("activate"),
           Line("maxthreshold")>>

\* lines 267-274: the three statistics, then the thresholds
print_stats_lines(o) ==
    print_thresholds(o \o <<Line("max"), Line("avg"), Line("stdev")>>)

\* lines 229-230: nothing to print for None or an empty list
PrintNothing ==
    /\ pc = "print"
    /\ cpslist.none \/ cpslist.v = <<>>
    /\ pc' = "done"
    /\ exit' = "ok"
    /\ UNCHANGED <<cli_vars, cpsdict, rows, skipped, sorted_keys, idx,
                   previous_key, previous_ts, count, cpslist, members, evals,
                   out>>

\* lines 247-248 and 263-265: the header, then sys.exit on a single sample
PrintFatal ==
    /\ pc = "print"
    /\ ~cpslist.none /\ Len(cpslist.v) = 1
    /\ out' = Append(out, header_line(cli_vars))
    /\ pc' = "done"
    /\ exit' = "fatal"
    /\ UNCHANGED <<cli_vars, cpsdict, rows, skipped, sorted_keys, idx,
                   previous_key, previous_ts, count, cpslist, members, evals>>

\* lines 247-248 and 267-274: the header, the statistics, the thresholds
PrintSummary ==
    /\ pc = "print"
    /\ ~cpslist.none /\ Len(cpslist.v) > 1
    /\ out' = print_stats_lines(Append(out, header_line(cli_vars)))
    /\ pc' = "done"
    /\ exit' = "ok"
    /\ UNCHANGED <<cli_vars, cpsdict, rows, skipped, sorted_keys, idx,
                   previous_key, previous_ts, count, cpslist, members, evals>>

Init == InitDerive

Next ==
    \/ EvaluateEmpty
    \/ EvaluateStart
    \/ LoopMerge
    \/ LoopClose
    \/ LoopEnd
    \/ PrintNothing
    \/ PrintFatal
    \/ PrintSummary

Spec == Init /\ [][Next]_vars

----------------------------------------------------------------------------
(* Vocabulary of the properties *)

\* the key "MMSS" a Start Time <<minute, second>> is rendered to
KeyOf(start) == start[1] * 100 + start[2]

\* the instant, in seconds, a key "MMSS" denotes
SecondsOf(key) == (key \div 100) * 60 + (key % 100)

Passing == {i \in 1 .. Len(rows) : ~skipped[i]}

RECURSIVE SumCounts(_)
SumCounts(d) ==
    IF DOMAIN d = {} THEN 0
    ELSE LET k == CHOOSE x \in DOMAIN d : TRUE
         IN  d[k] + SumCounts([x \in DOMAIN d \ {k} |-> d[x]])

Finished == pc \in {"print", "done"}

Interval == cli_vars.interval

\* lowcps < cps < highcps for the fraction cps
InBounds(cps) ==
    /\ cli_vars.lowcps * cps.den < cps.num
    /\ cps.num < cli_vars.highcps * cps.den

InFinal(cps) == \E j \in 1 .. Len(cpslist.v) : cpslist.v[j] = cps

RECURSIVE BucketKeys(_)
\* the keys of the evaluated buckets, in the order of evaluation
BucketKeys(es) ==
    IF es = <<>> THEN <<>> ELSE Head(es).keys \o BucketKeys(Tail(es))

RECURSIVE RetainedOf(_)
\* the cps of the evaluated buckets that pass the retention rule, in order
RetainedOf(es) ==
    IF es = <<>> THEN <<>>
    ELSE (IF Head(es).count > 1 /\ InBounds(Head(es).cps)
          THEN <<Head(es).cps>> ELSE <<>>) \o RetainedOf(Tail(es))

RECURSIVE PerKeySamples(_)
\* one sample per key, in increasing key order, of the counts above 1 that
\* lie strictly between lowcps and highcps
PerKeySamples(S) ==
    IF S = {} THEN <<>>
    ELSE LET m == CHOOSE x \in S : \A y \in S : x <= y
             c == cpsdict[m]
         IN  (IF c > 1 /\ cli_vars.lowcps < c /\ c < cli_vars.highcps
              THEN <<[num |-> c, den |-> 1]>> ELSE <<>>)
             \o PerKeySamples(S \ {m})

SummaryLines == {j \in 1 .. Len(out) : out[j].kind \in SummaryKinds}

----------------------------------------------------------------------------
(* Row Filter *)

\* C1: with exactly one of interface and zone set, a row is included iff
\* the field chosen by the set criterion equals the target exactly and the
\* protocol selector admits the row's protocol.
C1_RowFilter ==
    \A i \in 1 .. Len(rows) :
        LET row == rows[i]
            byInterface == ~cli_vars.interface.none
            field == IF byInterface THEN row.iface ELSE row.zone
            target == IF byInterface THEN cli_vars.interface.s
                      ELSE cli_vars.zone.s
            p == cli_vars.protocol
        IN  (~skipped[i]) <=>
                /\ field = target
                /\ \/ p = "all"
                   \/ p = "other" /\ row.proto \notin {"icmp", "tcp", "udp"}
                   \/ row.proto = p

----------------------------------------------------------------------------
(* Count table *)

\* C8: after any sequence of rows the count table has a key for exactly
\* the seconds of the rows that pass the filter, each key counts the
\* passing rows of that second, every count is at least 1 and the counts
\* sum to the number of passing rows (so a rejected row changes nothing).
C8_CountTable ==
    /\ DOMAIN cpsdict = {KeyOf(rows[i].start) : i \in Passing}
    /\ \A k \in DOMAIN cpsdict :
          /\ cpsdict[k] =
                Cardinality({i \in Passing : KeyOf(rows[i].start) = k})
          /\ cpsdict[k] >= 1
    /\ SumCounts(cpsdict) = Cardinality(Passing)

C8_Witness ==
    /\ pc = "returned"
    /\ Len(rows) = 2
    /\ \E k \in DOMAIN cpsdict : cpsdict[k] = 2 /\ k = 100

----------------------------------------------------------------------------
(* Retention *)

----------------------------------------------------------------------------
(* Summary *)

\* C3: with exactly one retained sample the run ends fatally and no line of
\* the summary has been printed.
C3_FatalBeforeSummary ==
    (pc = "done" /\ ~cpslist.none /\ Len(cpslist.v) = 1) =>
        (exit = "fatal" /\ SummaryLines = {})

\* C4 as stated: with no retained sample the run prints nothing and ends
\* without a fatal error, whatever the configuration.
C4_NoOutput ==
    (pc = "done" /\ cpslist.v = <<>>) => (out = <<>> /\ exit = "ok")

\* C4 amended: with no retained sample the run ends without a fatal error
\* and prints no line of the summary; it prints nothing at all when suppress
\* is true or the count table is empty, and otherwise exactly one progress
\* line, without highlight, per evaluated bucket.
C4_NoSummary ==
    (pc = "done" /\ cpslist.v = <<>>) =>
        /\ exit = "ok"
        /\ SummaryLines = {}
        /\ (cli_vars.suppress = "true" \/ cpsdict = EmptyDict) => out = <<>>
        /\ Len(out) \in {0, Len(evals)}
        /\ cli_vars.suppress = "false" => Len(out) = Len(evals)
        /\ \A j \in 1 .. Len(out) :
              out[j].kind = "progress" /\ ~out[j].highlight

C4_Witness ==
    /\ pc = "done"
    /\ cpslist.v = <<>>
    /\ cli_vars.suppress = "false"
    /\ Len(out) >= 2

----------------------------------------------------------------------------
(* Buckets *)

C6_RunningCount ==
    /\ \A i \in 1 .. Len(evals) :
          /\ evals[i].count =
                cpsdict[evals[i].keys[1]] + (Len(evals[i].keys) - 1)
          /\ evals[i].cps.den = Interval
          /\ evals[i].cps.num = evals[i].count
    /\ pc = "loop" => count = cpsdict[members[1]] + (Len(members) - 1)
    /\ (Finished /\ Interval = 3 /\ Cardinality(DOMAIN cpsdict) = 2
          /\ \E k \in DOMAIN cpsdict :
                \E k2 \in DOMAIN cpsdict :
                    /\ SecondsOf(k2) = SecondsOf(k) + 1
                    /\ cpsdict[k] = 1 /\ cpsdict[k2] = 1) =>
          /\ Len(evals) = 1
          /\ evals[1].count = 2
          /\ evals[1].cps = [num |-> 2, den |-> 3]

C6_Witness ==
    /\ Finished
    /\ \E i \in 1 .. Len(evals) :
          /\ Len(evals[i].keys) >= 2
          /\ cpsdict[evals[i].keys[2]] = 2
          /\ InFinal(evals[i].cps)

\* C9: for a non-empty table each key is in exactly one bucket, the buckets
\* are evaluated once each in strictly increasing order of anchor time, the
\* last one after the loop; the evaluations number 1 plus the non-first keys
\* that were not merged, and the samples are in the order of their buckets.
C9_Buckets ==
    /\ (Finished /\ cpsdict # EmptyDict) =>
          /\ BucketKeys(evals) = sorted_keys
          /\ {sorted_keys[i] : i \in 1 .. Len(sorted_keys)} = DOMAIN cpsdict
          /\ \A i, j \in 1 .. Len(sorted_keys) :
                i < j => sorted_keys[i] < sorted_keys[j]
          /\ \A i \in 1 .. Len(evals) :
                evals[i].anchor = SecondsOf(evals[i].keys[1])
          /\ \A i, j \in 1 .. Len(evals) :
                i < j => evals[i].anchor < evals[j].anchor
          /\ Len(evals) =
                1 + Cardinality({i \in 2 .. Len(sorted_keys) :
                       \E e \in 1 .. Len(evals) :
                           evals[e].keys[1] = sorted_keys[i]})
          /\ cpslist.v = RetainedOf(evals)
    /\ pc = "loop" =>
          /\ members # <<>>
          /\ BucketKeys(evals) \o members = SubSeq(sorted_keys, 1, idx - 1)

C9_Witness ==
    /\ Finished
    /\ Len(evals) >= 3
    /\ Len(cpslist.v) >= 2
    /\ \E i \in 1 .. Len(evals) : Len(evals[i].keys) >= 2
    /\ \E i \in 1 .. Len(evals) : ~InFinal(evals[i].cps)

====
